---- MODULE Spec2Model ----
(***************************************************************************)
(* State-machine model of GarbageCollector.h (libcpp-gc).                  *)
(*                                                                         *)
(* The registry `_pointers` is a std::list of shared_ptr<void>, guarded by *)
(* `_mutex`.  alloc() wraps a raw instance in a shared_ptr and appends a   *)
(* copy; collect() walks the list and erases the entries whose shared_ptr  *)
(* is unique(); runtime() starts a thread that waits on `_cv` for up to    *)
(* gcInterval, calls getInstance()->collect(), and leaves the loop when    *)
(* the wait returned because gcStopSignal was set.                         *)
(*                                                                         *)
(* A shared_ptr is modelled by the identity of its control block.  alloc() *)
(* makes a new control block for whatever raw pointer it is given: a newly *)
(* created object, a pointer that was handed over before, or nullptr.      *)
(* Reference counts are not stored: the use count of a control block is    *)
(* computed from every place that holds a shared_ptr of it (registry       *)
(* entries, the caller's variables, members of tracked objects and the     *)
(* local `pointer` of an alloc() in flight).  When the count reaches zero  *)
(* the control block deletes the object it owns.                           *)
(***************************************************************************)
EXTENDS Naturals, Sequences, FiniteSets

\* ------------------------------------------------------------------ bounds

\* alloc calls the work function of a runtime scope may make (Spec).
MaxObjects == 2
\* Threads calling alloc concurrently, and calls each makes (SpecAlloc).
NThreads == 2
AllocsPerThread == 2
\* Threads calling getInstance concurrently, and calls each makes
\* (SpecSingleton).
NGetters == 2
CallsPerGetter == 2
\* alloc calls made while two runtime scopes overlap (SpecTwo).
TwoScopeObjects == 1
\* alloc calls of the work function that builds a cycle (SpecCycle).
CycleAllocs == 3

\* ------------------------------------------------------------------- state

VARIABLES
    _pointers,      \* the registry: sequence of entries, a control block or
                    \* Null (an entry that has been reset)
    _mutex,         \* owner of the registry mutex, or NoThread
    _cvMutex,       \* owner of the mutex of the condition variable
    _globalMutex,   \* owner of the mutex of getInstance
    _instance,      \* the singleton shared_ptr: [ptr, ctrl]
    gcStopSignal,   \* per runtime scope: the stop flag of that call
    isNotTimeout,   \* per runtime scope: the result of the last wait_for
    iterator,       \* per runtime scope: position of collect() in _pointers
    pcMain,         \* per runtime scope: where the thread calling runtime is
    pcGc,           \* per runtime scope: where garbageCollectionThread is
    pcAlloc,        \* per allocating thread: where its alloc() call is
    instance,       \* per allocating thread: the raw pointer it passes
    pointer,        \* per allocating thread: the shared_ptr alloc() has made
    tail,           \* per allocating thread: list end seen by push_back
    quota,          \* per allocating thread: alloc() calls it may still make
    nextObj,        \* number of objects created with new so far
    nextCtrl,       \* number of control blocks made by alloc so far
    handles,        \* per owner: control blocks it holds a shared_ptr of
    fields,         \* per object: control blocks its members hold
    owned,          \* per control block: the raw pointer it owns (get())
    deleted,        \* control blocks whose count reached zero (deleter ran)
    crashed,        \* the process died of a double delete
    pcGet,          \* per getInstance caller: where its call is
    temp,           \* per getInstance caller: the shared_ptr it has made
    written,        \* parts of _instance the constructing thread has stored
    ret,            \* per getInstance caller: the shared_ptr last returned
    calls,          \* per getInstance caller: completed calls (SpecSingleton)
    constructed,    \* number of GarbageCollector objects constructed
    finalSweep,     \* per scope: "none", "running", "complete" (history)
    unownedAtWorkEnd, \* per scope: control blocks without owner when work
                    \* returned (history)
    lastSwept,      \* registry at the end of the last completed sweep
    swept,          \* a sweep has completed
    dirty,          \* alloc or ownership change since the last completed sweep
    repeated,       \* the last completed sweep followed another with no
                    \* alloc or ownership change in between
    foundOwned      \* entries the running or last sweep found not unique,
                    \* in the order it first found them (history)

vars == <<_pointers, _mutex, _cvMutex, _globalMutex, _instance, gcStopSignal,
          isNotTimeout, iterator, pcMain, pcGc, pcAlloc, instance, pointer,
          tail, quota, nextObj, nextCtrl, handles, fields, owned, deleted,
          crashed, pcGet, temp, written, ret, calls, constructed, finalSweep,
          unownedAtWorkEnd, lastSwept, swept, dirty, repeated, foundOwned>>

scopeVars == <<gcStopSignal, isNotTimeout, iterator, pcMain, finalSweep,
               unownedAtWorkEnd>>
gcVars == <<scopeVars, pcGc>>
callVars == <<instance, pointer, tail, quota, nextObj, nextCtrl>>
allocVars == <<callVars, pcAlloc>>
heapVars == <<handles, fields, owned, deleted, crashed>>
instanceVars == <<_globalMutex, _instance, temp, written, ret, calls,
                  constructed>>
singletonVars == <<instanceVars, pcGet>>
sweepHistory == <<lastSwept, swept, dirty, repeated, foundOwned>>

\* ----------------------------------------------------------------- threads

Null == 0
NoThread == <<"none", 0>>
Main(s) == <<"main", s>>
Gc(s) == <<"gc", s>>
Worker(i) == <<"worker", i>>
Getter(i) == <<"getter", i>>
\* Storage that outlives the work function (a global, a captured variable of
\* the caller of runtime).
Outer == <<"outer", 0>>

Scopes == DOMAIN pcMain
Objects == DOMAIN fields
Ctrls == DOMAIN owned
AllocThreads == DOMAIN pcAlloc
Getters == DOMAIN pcGet

\* std::terminate or abort has been called: no thread runs any more.
Terminated == crashed \/ \E s \in Scopes : pcMain[s] = "terminated"

\* ------------------------------------------------------------------- mutex

\* std::mutex::lock returns only when no thread owns the mutex.
MutexFreeBroken(m) == TRUE
MutexFree(m) == m = NoThread

\* ------------------------------------------------------- shared_ptr counts

\* shared_ptr::use_count(): every shared_ptr that shares control block c.
UseCountIn(reg, h, f, pa, ptr, c) ==
      Cardinality({i \in DOMAIN reg : reg[i] = c})
    + Cardinality({w \in DOMAIN h : c \in h[w]})
    + Cardinality({x \in DOMAIN f : c \in f[x]})
    + Cardinality({t \in DOMAIN pa : pa[t] \in {"made", "read", "pushed"}
                                      /\ ptr[t] = c})

UseCount(c) == UseCountIn(_pointers, handles, fields, pcAlloc, pointer, c)

\* shared_ptr::unique() as collect() calls it on a registry entry.
Unique(c) == UseCount(c) = 1

InRegistry(c) == \E i \in DOMAIN _pointers : _pointers[i] = c

\* The objects whose destructor has run.
DestructedIn(d) == {owned[c] : c \in d} \ {Null}
Destructed == DestructedIn(deleted)

\* Releasing the last shared_ptr of a control block deletes the object it
\* owns; the destructor releases the shared_ptrs the members hold, and so
\* on.  ub: an object was deleted that had been deleted before (two control
\* blocks own it).
RECURSIVE Destroy(_, _, _, _, _, _, _)
Destroy(reg, h, f, pa, ptr, d, ub) ==
    LET dead == {c \in Ctrls : /\ c <= nextCtrl
                               /\ c \notin d
                               /\ UseCountIn(reg, h, f, pa, ptr, c) = 0}
        gone == {owned[c] : c \in dead} \ {Null}
        twice == \/ gone \cap DestructedIn(d) # {}
                 \/ \E c1, c2 \in dead : c1 # c2 /\ owned[c1] = owned[c2]
                                         /\ owned[c1] # Null
    IN  IF dead = {}
        THEN [f |-> f, d |-> d, ub |-> ub]
        ELSE Destroy(reg, h, [x \in DOMAIN f |-> IF x \in gone THEN {} ELSE f[x]],
                     pa, ptr, d \cup dead, ub \/ twice)

\* The shared_ptrs of the application become h while the registry is reg.
\* A double delete is undefined behaviour: the allocator aborts the process
\* or the program runs on.
Release(reg, h) ==
    LET r == Destroy(reg, h, fields, pcAlloc, pointer, deleted, FALSE)
    IN  /\ handles' = h
        /\ fields' = r.f
        /\ deleted' = r.d
        /\ crashed' \in (IF r.ub THEN BOOLEAN ELSE {FALSE})

\* An alloc or a change of ownership after a completed sweep.
Touch == dirty' = swept

\* ------------------------------------------------------------------- alloc

\* The caller may call alloc: the work function of a running scope, or a
\* thread of its own.
MayCall(t) ==
    \/ \E s \in Scopes : t = Main(s) /\ pcMain[s] = "work"
    \/ t[1] = "worker"

\* Line 10, gc(instance): the caller has a raw pointer inst, which is a
\* newly created object (nextObj + 1), an object created before (whether
\* or not it is registered or still alive) or nullptr, and starts
\* GarbageCollector::getInstance()->alloc(inst).
AllocCall(t, inst) ==
    /\ ~Terminated
    /\ MayCall(t)
    /\ pcAlloc[t] = "idle"
    /\ quota[t] > 0
    /\ inst \in 0..(nextObj + 1)
    /\ inst <= Cardinality(Objects)
    /\ nextObj' = IF inst = nextObj + 1 THEN nextObj + 1 ELSE nextObj
    /\ instance' = [instance EXCEPT ![t] = inst]
    /\ quota' = [quota EXCEPT ![t] = @ - 1]
    /\ pcAlloc' = [pcAlloc EXCEPT ![t] = "get_instance"]
    /\ UNCHANGED <<_pointers, _mutex, _cvMutex, pointer, tail, nextCtrl,
                   gcVars, heapVars, singletonVars, sweepHistory>>

\* Lines 78-79: take _mutex, make the shared_ptr `pointer`: a new control
\* block that owns `instance`.
AllocLock(t) ==
    /\ ~Terminated
    /\ pcAlloc[t] = "call"
    /\ MutexFree(_mutex)
    /\ _mutex' = t
    /\ nextCtrl' = nextCtrl + 1
    /\ pointer' = [pointer EXCEPT ![t] = nextCtrl + 1]
    /\ owned' = [owned EXCEPT ![nextCtrl + 1] = instance[t]]
    /\ pcAlloc' = [pcAlloc EXCEPT ![t] = "made"]
    /\ UNCHANGED <<_pointers, _cvMutex, instance, tail, quota, nextObj,
                   handles, fields, deleted, crashed, gcVars, singletonVars,
                   sweepHistory>>

\* Line 81, first half: push_back finds the end of the list.
AllocPushRead(t) ==
    /\ ~Terminated
    /\ pcAlloc[t] = "made"
    /\ tail' = [tail EXCEPT ![t] = Len(_pointers)]
    /\ pcAlloc' = [pcAlloc EXCEPT ![t] = "read"]
    /\ UNCHANGED <<_pointers, _mutex, _cvMutex, instance, pointer, quota,
                   nextObj, nextCtrl, gcVars, heapVars, singletonVars,
                   sweepHistory>>

\* The list after a node holding c is linked behind position n.
PushBack(list, n, c) ==
    Append(SubSeq(list, 1, IF n <= Len(list) THEN n ELSE Len(list)), c)

\* Line 81, second half: push_back links the new node, a copy of `pointer`.
AllocPushLink(t) ==
    /\ ~Terminated
    /\ pcAlloc[t] = "read"
    /\ _pointers' = PushBack(_pointers, tail[t], pointer[t])
    /\ pcAlloc' = [pcAlloc EXCEPT ![t] = "pushed"]
    /\ Touch
    /\ UNCHANGED <<_mutex, _cvMutex, callVars, gcVars, heapVars,
                   singletonVars, lastSwept, swept, repeated, foundOwned>>

\* Line 83 and the end of the lock_guard: the caller receives `pointer`.
AllocReturn(t) ==
    /\ ~Terminated
    /\ pcAlloc[t] = "pushed"
    /\ handles' = [handles EXCEPT ![t] = @ \cup {pointer[t]}]
    /\ _mutex' = IF _mutex = t THEN NoThread ELSE _mutex
    /\ pcAlloc' = [pcAlloc EXCEPT ![t] = "idle"]
    /\ instance' = [instance EXCEPT ![t] = Null]
    /\ pointer' = [pointer EXCEPT ![t] = Null]
    /\ tail' = [tail EXCEPT ![t] = 0]
    /\ UNCHANGED <<_pointers, _cvMutex, quota, nextObj, nextCtrl, fields,
                   owned, deleted, crashed, gcVars, singletonVars,
                   sweepHistory>>

\* ---------------------------------------------------- the caller's handles

\* The work function stores a copy of a handle it holds in outer storage.
WorkShare(s, c) ==
    /\ ~Terminated
    /\ pcMain[s] = "work" /\ pcAlloc[Main(s)] = "idle"
    /\ c \in handles[Main(s)] /\ c \notin handles[Outer]
    /\ handles' = [handles EXCEPT ![Outer] = @ \cup {c}]
    /\ Touch
    /\ UNCHANGED <<_pointers, _mutex, _cvMutex, fields, owned, deleted,
                   crashed, gcVars, allocVars, singletonVars, lastSwept,
                   swept, repeated, foundOwned>>

\* The work function copies a handle from outer storage into a local.
WorkFetch(s, c) ==
    /\ ~Terminated
    /\ pcMain[s] = "work" /\ pcAlloc[Main(s)] = "idle"
    /\ c \in handles[Outer] /\ c \notin handles[Main(s)]
    /\ handles' = [handles EXCEPT ![Main(s)] = @ \cup {c}]
    /\ Touch
    /\ UNCHANGED <<_pointers, _mutex, _cvMutex, fields, owned, deleted,
                   crashed, gcVars, allocVars, singletonVars, lastSwept,
                   swept, repeated, foundOwned>>

\* A local handle of the work function goes out of scope or is reset.
WorkDrop(s, c) ==
    /\ ~Terminated
    /\ pcMain[s] = "work" /\ pcAlloc[Main(s)] = "idle"
    /\ c \in handles[Main(s)]
    /\ Release(_pointers, [handles EXCEPT ![Main(s)] = @ \ {c}])
    /\ Touch
    /\ UNCHANGED <<_pointers, _mutex, _cvMutex, owned, gcVars, allocVars,
                   singletonVars, lastSwept, swept, repeated, foundOwned>>

\* The handle in outer storage is released (by whichever thread owns that
\* storage, at any time).
OuterDrop(c) ==
    /\ ~Terminated
    /\ c \in handles[Outer]
    /\ Release(_pointers, [handles EXCEPT ![Outer] = @ \ {c}])
    /\ Touch
    /\ UNCHANGED <<_pointers, _mutex, _cvMutex, owned, gcVars, allocVars,
                   singletonVars, lastSwept, swept, repeated, foundOwned>>

\* A thread of its own releases a handle that alloc returned to it.
WorkerDrop(t, c) ==
    /\ ~Terminated
    /\ t[1] = "worker"
    /\ pcAlloc[t] = "idle"
    /\ c \in handles[t]
    /\ Release(_pointers, [handles EXCEPT ![t] = @ \ {c}])
    /\ Touch
    /\ UNCHANGED <<_pointers, _mutex, _cvMutex, owned, gcVars, allocVars,
                   singletonVars, lastSwept, swept, repeated, foundOwned>>

\* The work function stores a handle b in a member of the object that its
\* handle a points to; it does so only while that object is alive.
WorkSetField(s, a, b) ==
    /\ ~Terminated
    /\ pcMain[s] = "work" /\ pcAlloc[Main(s)] = "idle"
    /\ a # b
    /\ a \in handles[Main(s)] /\ b \in handles[Main(s)]
    /\ owned[a] # Null
    /\ owned[a] \notin Destructed
    /\ b \notin fields[owned[a]]
    /\ fields' = [fields EXCEPT ![owned[a]] = @ \cup {b}]
    /\ Touch
    /\ UNCHANGED <<_pointers, _mutex, _cvMutex, handles, owned, deleted,
                   crashed, gcVars, allocVars, singletonVars, lastSwept,
                   swept, repeated, foundOwned>>

\* ------------------------------------------------------------- getInstance

\* _instance is a plain shared_ptr read on lines 92 and 100 without any
\* lock while line 96 may be storing it: the store of its two words (the
\* object pointer and the control block) is not atomic, in either order.
Parts == {"ptr", "ctrl"}

\* Thread t is at a call of getInstance: a thread that only calls
\* getInstance, line 10 (gc(..) before alloc) or line 134 (before collect).
CallsGetInstance(t) ==
    \/ t[1] = "getter" /\ calls[t] < CallsPerGetter
    \/ t \in AllocThreads /\ pcAlloc[t] = "get_instance"
    \/ t[1] = "gc" /\ pcGc[t[2]] = "get_instance"

\* Line 92: the unsynchronized test of _instance.
GetCheck1(t) ==
    /\ ~Terminated
    /\ pcGet[t] = "idle"
    /\ CallsGetInstance(t)
    /\ pcGet' = [pcGet EXCEPT ![t] = IF _instance.ptr = Null THEN "lock"
                                                              ELSE "return"]
    /\ UNCHANGED <<_pointers, _mutex, _cvMutex, instanceVars, gcVars,
                   allocVars, heapVars, sweepHistory>>

\* Line 93: lock_guard on _globalMutex.
GetLock(t) ==
    /\ ~Terminated
    /\ pcGet[t] = "lock"
    /\ MutexFree(_globalMutex)
    /\ _globalMutex' = t
    /\ pcGet' = [pcGet EXCEPT ![t] = "check2"]
    /\ UNCHANGED <<_pointers, _mutex, _cvMutex, _instance, temp, written, ret,
                   calls, constructed, gcVars, allocVars, heapVars,
                   sweepHistory>>

\* Line 95: the test of _instance with the lock held.
SecondCheckSkipped == TRUE
SecondCheck == _instance.ptr = Null

GetCheck2(t) ==
    /\ ~Terminated
    /\ pcGet[t] = "check2"
    /\ pcGet' = [pcGet EXCEPT ![t] = IF SecondCheck THEN "construct"
                                                     ELSE "unlock"]
    /\ UNCHANGED <<_pointers, _mutex, _cvMutex, instanceVars, gcVars,
                   allocVars, heapVars, sweepHistory>>

\* Line 96, right-hand side: a GarbageCollector is constructed and wrapped.
GetConstruct(t) ==
    /\ ~Terminated
    /\ pcGet[t] = "construct"
    /\ constructed' = constructed + 1
    /\ temp' = [temp EXCEPT ![t] = [ptr |-> constructed + 1,
                                    ctrl |-> constructed + 1]]
    /\ written' = {}
    /\ pcGet' = [pcGet EXCEPT ![t] = "assign"]
    /\ UNCHANGED <<_pointers, _mutex, _cvMutex, _globalMutex, _instance, ret,
                   calls, gcVars, allocVars, heapVars, sweepHistory>>

\* Line 96, assignment: one word of _instance is stored.
GetAssign(t, part) ==
    /\ ~Terminated
    /\ pcGet[t] = "assign"
    /\ part \notin written
    /\ _instance' = [_instance EXCEPT ![part] = temp[t][part]]
    /\ written' = IF written \cup {part} = Parts THEN {} ELSE written \cup {part}
    /\ pcGet' = [pcGet EXCEPT ![t] = IF written \cup {part} = Parts
                                     THEN "unlock" ELSE "assign"]
    /\ UNCHANGED <<_pointers, _mutex, _cvMutex, _globalMutex, temp, ret, calls,
                   constructed, gcVars, allocVars, heapVars, sweepHistory>>

\* Line 98: the lock_guard ends.
GetUnlock(t) ==
    /\ ~Terminated
    /\ pcGet[t] = "unlock"
    /\ _globalMutex' = IF _globalMutex = t THEN NoThread ELSE _globalMutex
    /\ pcGet' = [pcGet EXCEPT ![t] = "return"]
    /\ UNCHANGED <<_pointers, _mutex, _cvMutex, _instance, temp, written, ret,
                   calls, constructed, gcVars, allocVars, heapVars,
                   sweepHistory>>

\* Line 100: a copy of _instance, as it is stored now, is returned; the
\* caller goes on to ->alloc(instance) (line 10) or ->collect() (line 134).
GetReturn(t) ==
    /\ ~Terminated
    /\ pcGet[t] = "return"
    /\ ret' = [ret EXCEPT ![t] = _instance]
    /\ calls' = [calls EXCEPT ![t] = IF t[1] = "getter" THEN @ + 1 ELSE @]
    /\ pcGet' = [pcGet EXCEPT ![t] = "idle"]
    /\ pcAlloc' = IF t \in AllocThreads
                  THEN [pcAlloc EXCEPT ![t] = "call"] ELSE pcAlloc
    /\ pcGc' = IF t[1] = "gc"
               THEN [pcGc EXCEPT ![t[2]] = "collect"] ELSE pcGc
    /\ UNCHANGED <<_pointers, _mutex, _cvMutex, _globalMutex, _instance, temp,
                   written, constructed, scopeVars, callVars, heapVars,
                   sweepHistory>>

\* The steps of a getInstance call of thread t.
GetRun(t) ==
    \/ GetCheck1(t)
    \/ GetLock(t)
    \/ GetCheck2(t)
    \/ GetConstruct(t)
    \/ \E part \in Parts : GetAssign(t, part)
    \/ GetUnlock(t)
    \/ GetReturn(t)

\* ----------------------------------------------------------------- runtime

\* Lines 124-126: a fresh stop flag, the thread is started; line 142 calls
\* the work function.
RuntimeStart(s) ==
    /\ ~Terminated
    /\ pcMain[s] = "idle"
    /\ gcStopSignal' = [gcStopSignal EXCEPT ![s] = FALSE]
    /\ pcGc' = [pcGc EXCEPT ![s] = "loop"]
    /\ pcMain' = [pcMain EXCEPT ![s] = "work"]
    /\ UNCHANGED <<_pointers, _mutex, _cvMutex, isNotTimeout, iterator,
                   finalSweep, unownedAtWorkEnd, allocVars, heapVars,
                   singletonVars, sweepHistory>>

\* Control blocks registered and without any owner but the registry, or
\* already released.
Unowned(reg, h, f, d) ==
    {c \in Ctrls :
        \/ c \in d
        \/ /\ \E i \in DOMAIN reg : reg[i] = c
           /\ UseCountIn(reg, h, f, pcAlloc, pointer, c) = 1}

\* Line 142: the work function returns; its locals are gone.
WorkReturn(s) ==
    /\ ~Terminated
    /\ pcMain[s] = "work" /\ pcAlloc[Main(s)] = "idle"
    /\ Release(_pointers, [handles EXCEPT ![Main(s)] = {}])
    /\ unownedAtWorkEnd' =
          [unownedAtWorkEnd EXCEPT ![s] =
              Unowned(_pointers, handles', fields', deleted')]
    /\ pcMain' = [pcMain EXCEPT ![s] = "stop_lock"]
    /\ dirty' = IF handles[Main(s)] = {} THEN dirty ELSE swept
    /\ UNCHANGED <<_pointers, _mutex, _cvMutex, gcStopSignal, isNotTimeout,
                   iterator, pcGc, finalSweep, owned, allocVars,
                   singletonVars, lastSwept, swept, repeated, foundOwned>>

\* Line 142: the work function throws.  runtime has no handler.  If a
\* handler exists further up, the stack unwinds: the locals of the work
\* function are released, then the destructor of the joinable
\* garbageCollectionThread calls std::terminate.  If there is none,
\* std::terminate is called and whether the stack is unwound first is up to
\* the implementation.  Lines 144-150 are not executed.
WorkThrow(s) ==
    /\ ~Terminated
    /\ pcMain[s] = "work" /\ pcAlloc[Main(s)] = "idle"
    /\ \E unwound \in BOOLEAN :
           Release(_pointers, IF unwound
                              THEN [handles EXCEPT ![Main(s)] = {}]
                              ELSE handles)
    /\ pcMain' = [pcMain EXCEPT ![s] = "terminated"]
    /\ UNCHANGED <<_pointers, _mutex, _cvMutex, gcStopSignal, isNotTimeout,
                   iterator, pcGc, finalSweep, unownedAtWorkEnd, owned,
                   allocVars, singletonVars, sweepHistory>>

\* Line 145: lock_guard on _cvMutex.
StopLock(s) ==
    /\ ~Terminated
    /\ pcMain[s] = "stop_lock"
    /\ MutexFree(_cvMutex)
    /\ _cvMutex' = Main(s)
    /\ pcMain' = [pcMain EXCEPT ![s] = "stop_set"]
    /\ UNCHANGED <<_pointers, _mutex, gcStopSignal, isNotTimeout, iterator,
                   pcGc, finalSweep, unownedAtWorkEnd, allocVars, heapVars,
                   singletonVars, sweepHistory>>

\* Lines 146-147: the flag is set, the lock_guard ends.
StopSet(s) ==
    /\ ~Terminated
    /\ pcMain[s] = "stop_set"
    /\ gcStopSignal' = [gcStopSignal EXCEPT ![s] = TRUE]
    /\ _cvMutex' = IF _cvMutex = Main(s) THEN NoThread ELSE _cvMutex
    /\ pcMain' = [pcMain EXCEPT ![s] = "notify"]
    /\ UNCHANGED <<_pointers, _mutex, isNotTimeout, iterator, pcGc,
                   finalSweep, unownedAtWorkEnd, allocVars, heapVars,
                   singletonVars, sweepHistory>>

\* The threads blocked in _cv.wait_for.
Waiters == {g \in Scopes : pcGc[g] = "blocked"}

\* Line 149: _cv.notify_one() wakes one of the threads blocked on _cv, if
\* there is any.
Notify(s) ==
    /\ ~Terminated
    /\ pcMain[s] = "notify"
    /\ \/ /\ Waiters = {}
          /\ pcGc' = pcGc
       \/ \E g \in Waiters : pcGc' = [pcGc EXCEPT ![g] = "relock"]
    /\ pcMain' = [pcMain EXCEPT ![s] = "join"]
    /\ UNCHANGED <<_pointers, _mutex, _cvMutex, gcStopSignal, isNotTimeout,
                   iterator, finalSweep, unownedAtWorkEnd, allocVars,
                   heapVars, singletonVars, sweepHistory>>

\* std::thread::join returns once the thread has left its function.
ThreadFinishedNoWait(s) == TRUE
ThreadFinished(s) == pcGc[s] = "exited"

\* Line 150: join returns once the thread has left its function; line 152.
Join(s) ==
    /\ ~Terminated
    /\ pcMain[s] = "join"
    /\ ThreadFinished(s)
    /\ pcMain' = [pcMain EXCEPT ![s] = "returned"]
    /\ UNCHANGED <<_pointers, _mutex, _cvMutex, gcStopSignal, isNotTimeout,
                   iterator, pcGc, finalSweep, unownedAtWorkEnd, allocVars,
                   heapVars, singletonVars, sweepHistory>>

\* --------------------------------------------- garbageCollectionThread

\* Line 128: unique_lock on _cvMutex at the top of each iteration.
GcLock(s) ==
    /\ ~Terminated
    /\ pcGc[s] = "loop"
    /\ MutexFree(_cvMutex)
    /\ _cvMutex' = Gc(s)
    /\ pcGc' = [pcGc EXCEPT ![s] = "wait_pred"]
    /\ UNCHANGED <<_pointers, _mutex, scopeVars, allocVars, heapVars,
                   singletonVars, sweepHistory>>

\* Line 130: wait_for tests the predicate with the lock held; it returns
\* true at once when the flag is set, else it releases the lock and blocks.
GcWaitPred(s) ==
    /\ ~Terminated
    /\ pcGc[s] = "wait_pred"
    /\ IF gcStopSignal[s]
       THEN /\ isNotTimeout' = [isNotTimeout EXCEPT ![s] = TRUE]
            /\ pcGc' = [pcGc EXCEPT ![s] = "get_instance"]
            /\ _cvMutex' = _cvMutex
       ELSE /\ isNotTimeout' = isNotTimeout
            /\ pcGc' = [pcGc EXCEPT ![s] = "blocked"]
            /\ _cvMutex' = IF _cvMutex = Gc(s) THEN NoThread ELSE _cvMutex
    /\ UNCHANGED <<_pointers, _mutex, gcStopSignal, iterator, pcMain,
                   finalSweep, unownedAtWorkEnd, allocVars, heapVars,
                   singletonVars, sweepHistory>>

\* Line 130: gcInterval elapses while the thread is blocked.
GcTimeout(s) ==
    /\ ~Terminated
    /\ pcGc[s] = "blocked"
    /\ pcGc' = [pcGc EXCEPT ![s] = "relock_timeout"]
    /\ UNCHANGED <<_pointers, _mutex, _cvMutex, scopeVars, allocVars,
                   heapVars, singletonVars, sweepHistory>>

\* Line 130: a condition variable may wake without notification.
GcSpurious(s) ==
    /\ ~Terminated
    /\ pcGc[s] = "blocked"
    /\ pcGc' = [pcGc EXCEPT ![s] = "relock"]
    /\ UNCHANGED <<_pointers, _mutex, _cvMutex, scopeVars, allocVars,
                   heapVars, singletonVars, sweepHistory>>

\* What wait_for returns when the interval has elapsed: the predicate.
WaitResultNoTimeout(s) == TRUE
WaitResultOnTimeout(s) == gcStopSignal[s]

\* Line 130: the woken thread takes _cvMutex again.  After a timeout
\* wait_for returns the predicate; after a wake-up it tests the predicate
\* again.
GcRelock(s) ==
    /\ ~Terminated
    /\ pcGc[s] \in {"relock", "relock_timeout"}
    /\ MutexFree(_cvMutex)
    /\ _cvMutex' = Gc(s)
    /\ IF pcGc[s] = "relock_timeout"
       THEN /\ isNotTimeout' = [isNotTimeout EXCEPT ![s] = WaitResultOnTimeout(s)]
            /\ pcGc' = [pcGc EXCEPT ![s] = "get_instance"]
       ELSE /\ isNotTimeout' = isNotTimeout
            /\ pcGc' = [pcGc EXCEPT ![s] = "wait_pred"]
    /\ UNCHANGED <<_pointers, _mutex, gcStopSignal, iterator, pcMain,
                   finalSweep, unownedAtWorkEnd, allocVars, heapVars,
                   singletonVars, sweepHistory>>

\* Lines 134, 33, 35: getInstance() has returned; collect() takes _mutex and
\* starts at begin().  The unique_lock on _cvMutex of line 128 is still
\* held.
CollectLock(s) ==
    /\ ~Terminated
    /\ pcGc[s] = "collect"
    /\ MutexFree(_mutex)
    /\ _mutex' = Gc(s)
    /\ iterator' = [iterator EXCEPT ![s] = 1]
    /\ finalSweep' = [finalSweep EXCEPT
                         ![s] = IF gcStopSignal[s] THEN "running" ELSE "none"]
    /\ foundOwned' = <<>>
    /\ pcGc' = [pcGc EXCEPT ![s] = "collect_loop"]
    /\ UNCHANGED <<_pointers, _cvMutex, gcStopSignal, isNotTimeout, pcMain,
                   unownedAtWorkEnd, allocVars, heapVars, singletonVars,
                   lastSwept, swept, dirty, repeated>>

\* Line 35: iterator != _pointers.end() fails.
AtEndEarly(it) == it >= Len(_pointers)
AtEnd(it) == it > Len(_pointers)

\* Lines 35, 41: the loop ends, the lock_guard releases _mutex.
CollectEnd(s) ==
    /\ ~Terminated
    /\ pcGc[s] = "collect_loop"
    /\ AtEnd(iterator[s])
    /\ _mutex' = IF _mutex = Gc(s) THEN NoThread ELSE _mutex
    /\ finalSweep' = [finalSweep EXCEPT
                         ![s] = IF @ = "running" THEN "complete" ELSE @]
    /\ lastSwept' = _pointers
    /\ swept' = TRUE
    /\ dirty' = FALSE
    /\ repeated' = (swept /\ ~dirty)
    /\ pcGc' = [pcGc EXCEPT ![s] = "check_break"]
    /\ UNCHANGED <<_pointers, _cvMutex, gcStopSignal, isNotTimeout, iterator,
                   pcMain, unownedAtWorkEnd, allocVars, heapVars,
                   singletonVars, foundOwned>>

\* Lines 36-37: the entry is unique; it is reset, which releases the last
\* shared_ptr of its control block.
CollectReset(s) ==
    /\ ~Terminated
    /\ pcGc[s] = "collect_loop"
    /\ ~AtEnd(iterator[s])
    /\ Unique(_pointers[iterator[s]])
    /\ _pointers' = [_pointers EXCEPT ![iterator[s]] = Null]
    /\ Release(_pointers', handles)
    /\ pcGc' = [pcGc EXCEPT ![s] = "collect_erase"]
    /\ UNCHANGED <<_mutex, _cvMutex, scopeVars, owned, allocVars,
                   singletonVars, sweepHistory>>

\* The list without the node at position it.
Erase(list, it) ==
    [i \in 1..(Len(list) - 1) |-> IF i < it THEN list[i] ELSE list[i + 1]]

\* The iterator std::list::erase returns: the element that followed.
EraseNextSkip(it) == it + 1
EraseNext(it) == it

\* Line 38: the node is erased; the iterator is the one erase returns.
CollectErase(s) ==
    /\ ~Terminated
    /\ pcGc[s] = "collect_erase"
    /\ _pointers' = Erase(_pointers, iterator[s])
    /\ iterator' = [iterator EXCEPT ![s] = EraseNext(@)]
    /\ pcGc' = [pcGc EXCEPT ![s] = "collect_loop"]
    /\ UNCHANGED <<_mutex, _cvMutex, gcStopSignal, isNotTimeout, pcMain,
                   finalSweep, unownedAtWorkEnd, allocVars, heapVars,
                   singletonVars, sweepHistory>>

\* Lines 35-40: the entry is not unique.  The for statement has no
\* increment and the body does not move the iterator: the next iteration
\* tests the same entry.
CollectSpin(s) ==
    /\ ~Terminated
    /\ pcGc[s] = "collect_loop"
    /\ ~AtEnd(iterator[s])
    /\ ~Unique(_pointers[iterator[s]])
    /\ foundOwned' = IF \E i \in DOMAIN foundOwned :
                            foundOwned[i] = _pointers[iterator[s]]
                     THEN foundOwned
                     ELSE Append(foundOwned, _pointers[iterator[s]])
    /\ UNCHANGED <<_pointers, _mutex, _cvMutex, gcVars, allocVars, heapVars,
                   singletonVars, lastSwept, swept, dirty, repeated>>

\* Line 136: the loop is left when wait_for returned true.
ShouldBreakInverted(s) == ~isNotTimeout[s]
ShouldBreak(s) == isNotTimeout[s]

\* Lines 136-139: break or next iteration; the unique_lock of line 128 ends
\* either way.
GcCheckBreak(s) ==
    /\ ~Terminated
    /\ pcGc[s] = "check_break"
    /\ _cvMutex' = IF _cvMutex = Gc(s) THEN NoThread ELSE _cvMutex
    /\ pcGc' = [pcGc EXCEPT ![s] = IF ShouldBreak(s) THEN "exited" ELSE "loop"]
    /\ UNCHANGED <<_pointers, _mutex, scopeVars, allocVars, heapVars,
                   singletonVars, sweepHistory>>

\* ------------------------------------------------- one runtime scope (Spec)

\* A fresh process: nothing is registered, no GarbageCollector exists yet,
\* no lock is held.
InitShared ==
    /\ _pointers = <<>>
    /\ _mutex = NoThread
    /\ _cvMutex = NoThread
    /\ _globalMutex = NoThread
    /\ _instance = [ptr |-> Null, ctrl |-> Null]
    /\ constructed = 0
    /\ written = {}
    /\ deleted = {}
    /\ crashed = FALSE
    /\ nextObj = 0
    /\ nextCtrl = 0
    /\ lastSwept = <<>>
    /\ swept = FALSE
    /\ dirty = FALSE
    /\ repeated = FALSE
    /\ foundOwned = <<>>

\* The threads that will call getInstance.
InitGetters(threads) ==
    /\ pcGet = [t \in threads |-> "idle"]
    /\ temp = [t \in threads |-> [ptr |-> Null, ctrl |-> Null]]
    /\ ret = [t \in threads |-> [ptr |-> Null, ctrl |-> Null]]
    /\ calls = [t \in threads |-> 0]

\* n calls of runtime, none started.
InitScopes(n) ==
    /\ gcStopSignal = [s \in 1..n |-> FALSE]
    /\ isNotTimeout = [s \in 1..n |-> FALSE]
    /\ iterator = [s \in 1..n |-> 1]
    /\ pcMain = [s \in 1..n |-> "idle"]
    /\ pcGc = [s \in 1..n |-> "not_started"]
    /\ finalSweep = [s \in 1..n |-> "none"]
    /\ unownedAtWorkEnd = [s \in 1..n |-> {}]

\* The threads in callers make perThread alloc calls each, nCalls in all;
\* owners are the places that can hold a handle.
InitAllocators(threads, callers, owners, perThread, nCalls) ==
    /\ pcAlloc = [t \in threads |-> "idle"]
    /\ instance = [t \in threads |-> Null]
    /\ pointer = [t \in threads |-> Null]
    /\ tail = [t \in threads |-> 0]
    /\ quota = [t \in threads |-> IF t \in callers THEN perThread ELSE 0]
    /\ handles = [w \in owners |-> {}]
    /\ fields = [o \in 1..nCalls |-> {}]
    /\ owned = [c \in 1..nCalls |-> Null]

Init ==
    /\ InitShared
    /\ InitGetters({Main(1), Gc(1)})
    /\ InitScopes(1)
    /\ InitAllocators({Main(1)}, {Main(1)}, {Main(1), Outer},
                      MaxObjects, MaxObjects)

Next ==
    \/ \E s \in Scopes : RuntimeStart(s)
    \/ \E s \in Scopes, inst \in {Null} \cup Objects : AllocCall(Main(s), inst)
    \/ \E t \in Getters : GetCheck1(t)
    \/ \E t \in Getters : GetLock(t)
    \/ \E t \in Getters : GetCheck2(t)
    \/ \E t \in Getters : GetConstruct(t)
    \/ \E t \in Getters, part \in Parts : GetAssign(t, part)
    \/ \E t \in Getters : GetUnlock(t)
    \/ \E t \in Getters : GetReturn(t)
    \/ \E s \in Scopes : AllocLock(Main(s))
    \/ \E s \in Scopes : AllocPushRead(Main(s))
    \/ \E s \in Scopes : AllocPushLink(Main(s))
    \/ \E s \in Scopes : AllocReturn(Main(s))
    \/ \E s \in Scopes, c \in Ctrls : WorkShare(s, c)
    \/ \E s \in Scopes, c \in Ctrls : WorkFetch(s, c)
    \/ \E s \in Scopes, c \in Ctrls : WorkDrop(s, c)
    \/ \E s \in Scopes, a, b \in Ctrls : WorkSetField(s, a, b)
    \/ \E c \in Ctrls : OuterDrop(c)
    \/ \E s \in Scopes : WorkReturn(s)
    \/ \E s \in Scopes : WorkThrow(s)
    \/ \E s \in Scopes : StopLock(s)
    \/ \E s \in Scopes : StopSet(s)
    \/ \E s \in Scopes : Notify(s)
    \/ \E s \in Scopes : Join(s)
    \/ \E s \in Scopes : GcLock(s)
    \/ \E s \in Scopes : GcWaitPred(s)
    \/ \E s \in Scopes : GcTimeout(s)
    \/ \E s \in Scopes : GcSpurious(s)
    \/ \E s \in Scopes : GcRelock(s)
    \/ \E s \in Scopes : CollectLock(s)
    \/ \E s \in Scopes : CollectEnd(s)
    \/ \E s \in Scopes : CollectReset(s)
    \/ \E s \in Scopes : CollectErase(s)
    \/ \E s \in Scopes : CollectSpin(s)
    \/ \E s \in Scopes : GcCheckBreak(s)

Spec == Init /\ [][Next]_vars

\* Scheduling: a thread that can take a step eventually takes it, and the
\* thread calling runtime gets _cvMutex if it is free again and again (the
\* sweep thread releases it for a whole gcInterval in every iteration).  The
\* work function owes nothing: it may run for ever; the owner of the outer
\* storage need not release it; a spurious wake-up need not happen.
MainStop(s) == StopLock(s) \/ StopSet(s) \/ Notify(s) \/ Join(s)

GcRun(s) ==
    \/ GcLock(s)
    \/ GcWaitPred(s)
    \/ GcTimeout(s)
    \/ GcRelock(s)
    \/ GetRun(Gc(s))
    \/ CollectLock(s)
    \/ CollectEnd(s)
    \/ CollectReset(s)
    \/ CollectErase(s)
    \/ CollectSpin(s)
    \/ GcCheckBreak(s)

FairSpec == Spec /\ SF_vars(MainStop(1)) /\ WF_vars(GcRun(1))

\* The steps of the sweep thread other than the expiry of gcInterval.
GcRunNoTimeout(s) ==
    \/ GcLock(s)
    \/ GcWaitPred(s)
    \/ GcRelock(s)
    \/ GetRun(Gc(s))
    \/ CollectLock(s)
    \/ CollectEnd(s)
    \/ CollectReset(s)
    \/ CollectErase(s)
    \/ CollectSpin(s)
    \/ GcCheckBreak(s)

\* The sweep thread runs, but gcInterval need never expire.
FairSpecNoTimeout ==
    Spec /\ SF_vars(MainStop(1)) /\ WF_vars(GcRunNoTimeout(1))

\* The steps of a gc(..) call that has been made.
AllocRun(t) ==
    \/ GetRun(t)
    \/ AllocLock(t)
    \/ AllocPushRead(t)
    \/ AllocPushLink(t)
    \/ AllocReturn(t)

\* The sweep thread runs and a thread inside alloc is scheduled; it gets
\* the mutex it waits for if the mutex is free again and again.
FairSpecAlloc ==
    Spec /\ WF_vars(GcRun(1)) /\ SF_vars(AllocRun(Main(1)))

\* --------------------------------------- concurrent alloc calls (SpecAlloc)

\* NThreads threads, each calling gc(new T) AllocsPerThread times; runtime
\* is not called, so no sweep runs.
InitAlloc ==
    /\ InitShared
    /\ InitGetters({Worker(i) : i \in 1..NThreads})
    /\ InitScopes(0)
    /\ InitAllocators({Worker(i) : i \in 1..NThreads},
                      {Worker(i) : i \in 1..NThreads},
                      {Worker(i) : i \in 1..NThreads},
                      AllocsPerThread, NThreads * AllocsPerThread)

\* Every call registers an object of its own, created for the call.
NextAlloc ==
    \/ \E t \in AllocThreads : AllocCall(t, nextObj + 1)
    \/ \E t \in Getters : GetCheck1(t)
    \/ \E t \in Getters : GetLock(t)
    \/ \E t \in Getters : GetCheck2(t)
    \/ \E t \in Getters : GetConstruct(t)
    \/ \E t \in Getters, part \in Parts : GetAssign(t, part)
    \/ \E t \in Getters : GetUnlock(t)
    \/ \E t \in Getters : GetReturn(t)
    \/ \E t \in AllocThreads : AllocLock(t)
    \/ \E t \in AllocThreads : AllocPushRead(t)
    \/ \E t \in AllocThreads : AllocPushLink(t)
    \/ \E t \in AllocThreads : AllocReturn(t)

SpecAlloc == InitAlloc /\ [][NextAlloc]_vars

\* -------------------------------------------- getInstance (SpecSingleton)

\* No instance exists yet; NGetters threads are about to call getInstance.
InitSingleton ==
    /\ InitShared
    /\ InitGetters({Getter(i) : i \in 1..NGetters})
    /\ InitScopes(0)
    /\ InitAllocators({}, {}, {}, 0, 0)

NextSingleton ==
    \/ \E t \in Getters : GetCheck1(t)
    \/ \E t \in Getters : GetLock(t)
    \/ \E t \in Getters : GetCheck2(t)
    \/ \E t \in Getters : GetConstruct(t)
    \/ \E t \in Getters, part \in Parts : GetAssign(t, part)
    \/ \E t \in Getters : GetUnlock(t)
    \/ \E t \in Getters : GetReturn(t)

SpecSingleton == InitSingleton /\ [][NextSingleton]_vars

\* ------------------------------- alloc outside a scope (SpecOutside)

\* runtime is called twice, one call after the other; another thread calls
\* alloc and releases the handles it got at any time: before the first
\* call, during either, between the two and after the second.
InitOutside ==
    /\ InitShared
    /\ InitGetters({Worker(1), Gc(1), Gc(2)})
    /\ InitScopes(2)
    /\ InitAllocators({Main(1), Main(2), Worker(1)}, {Worker(1)},
                      {Main(1), Main(2), Worker(1)}, MaxObjects, MaxObjects)

\* The second call of runtime follows the return of the first.
RuntimeStartAfter(s) ==
    /\ s > 1
    /\ pcMain[s - 1] = "returned"
    /\ RuntimeStart(s)

NextOutside ==
    \/ RuntimeStart(1)
    \/ \E s \in Scopes : RuntimeStartAfter(s)
    \/ \E inst \in {Null} \cup Objects : AllocCall(Worker(1), inst)
    \/ \E t \in Getters : GetCheck1(t)
    \/ \E t \in Getters : GetLock(t)
    \/ \E t \in Getters : GetCheck2(t)
    \/ \E t \in Getters : GetConstruct(t)
    \/ \E t \in Getters, part \in Parts : GetAssign(t, part)
    \/ \E t \in Getters : GetUnlock(t)
    \/ \E t \in Getters : GetReturn(t)
    \/ AllocLock(Worker(1))
    \/ AllocPushRead(Worker(1))
    \/ AllocPushLink(Worker(1))
    \/ AllocReturn(Worker(1))
    \/ \E c \in Ctrls : WorkerDrop(Worker(1), c)
    \/ \E s \in Scopes : WorkReturn(s)
    \/ \E s \in Scopes : StopLock(s)
    \/ \E s \in Scopes : StopSet(s)
    \/ \E s \in Scopes : Notify(s)
    \/ \E s \in Scopes : Join(s)
    \/ \E s \in Scopes : GcLock(s)
    \/ \E s \in Scopes : GcWaitPred(s)
    \/ \E s \in Scopes : GcTimeout(s)
    \/ \E s \in Scopes : GcSpurious(s)
    \/ \E s \in Scopes : GcRelock(s)
    \/ \E s \in Scopes : CollectLock(s)
    \/ \E s \in Scopes : CollectEnd(s)
    \/ \E s \in Scopes : CollectReset(s)
    \/ \E s \in Scopes : CollectErase(s)
    \/ \E s \in Scopes : CollectSpin(s)
    \/ \E s \in Scopes : GcCheckBreak(s)

SpecOutside == InitOutside /\ [][NextOutside]_vars

\* ------------------------------------ two overlapping runtime scopes (SpecTwo)

\* Two threads call runtime at any time, so the two scopes can overlap: two
\* sweep threads wait on the one static _cv under the one static _cvMutex,
\* each with the gcStopSignal of its own call.  The work function of the
\* first scope allocates.
InitTwo ==
    /\ InitShared
    /\ InitGetters({Main(1), Gc(1), Gc(2)})
    /\ InitScopes(2)
    /\ InitAllocators({Main(1), Main(2)}, {Main(1)},
                      {Main(1), Main(2), Outer},
                      TwoScopeObjects, TwoScopeObjects)

NextTwo ==
    \/ \E s \in Scopes : RuntimeStart(s)
    \/ \E s \in Scopes, inst \in {Null} \cup Objects : AllocCall(Main(s), inst)
    \/ \E t \in Getters : GetCheck1(t)
    \/ \E t \in Getters : GetLock(t)
    \/ \E t \in Getters : GetCheck2(t)
    \/ \E t \in Getters : GetConstruct(t)
    \/ \E t \in Getters, part \in Parts : GetAssign(t, part)
    \/ \E t \in Getters : GetUnlock(t)
    \/ \E t \in Getters : GetReturn(t)
    \/ \E s \in Scopes : AllocLock(Main(s))
    \/ \E s \in Scopes : AllocPushRead(Main(s))
    \/ \E s \in Scopes : AllocPushLink(Main(s))
    \/ \E s \in Scopes : AllocReturn(Main(s))
    \/ \E s \in Scopes, c \in Ctrls : WorkShare(s, c)
    \/ \E s \in Scopes, c \in Ctrls : WorkFetch(s, c)
    \/ \E s \in Scopes, c \in Ctrls : WorkDrop(s, c)
    \/ \E c \in Ctrls : OuterDrop(c)
    \/ \E s \in Scopes : WorkReturn(s)
    \/ \E s \in Scopes : StopLock(s)
    \/ \E s \in Scopes : StopSet(s)
    \/ \E s \in Scopes : Notify(s)
    \/ \E s \in Scopes : Join(s)
    \/ \E s \in Scopes : GcLock(s)
    \/ \E s \in Scopes : GcWaitPred(s)
    \/ \E s \in Scopes : GcTimeout(s)
    \/ \E s \in Scopes : GcSpurious(s)
    \/ \E s \in Scopes : GcRelock(s)
    \/ \E s \in Scopes : CollectLock(s)
    \/ \E s \in Scopes : CollectEnd(s)
    \/ \E s \in Scopes : CollectReset(s)
    \/ \E s \in Scopes : CollectErase(s)
    \/ \E s \in Scopes : CollectSpin(s)
    \/ \E s \in Scopes : GcCheckBreak(s)

SpecTwo == InitTwo /\ [][NextTwo]_vars

\* Both callers of runtime, both sweep threads and a thread inside alloc are
\* scheduled and get the mutex they wait for if it is free again and again;
\* gcInterval expires.
FairSpecTwo ==
    /\ SpecTwo
    /\ SF_vars(MainStop(1)) /\ SF_vars(MainStop(2))
    /\ SF_vars(GcRun(1)) /\ SF_vars(GcRun(2))
    /\ SF_vars(AllocRun(Main(1)))

\* -------------------------------- a work function with members (SpecCycle)

\* One runtime scope whose work function makes up to CycleAllocs alloc
\* calls, stores handles in members of the objects and releases its locals.
InitCycle ==
    /\ InitShared
    /\ InitGetters({Main(1), Gc(1)})
    /\ InitScopes(1)
    /\ InitAllocators({Main(1)}, {Main(1)}, {Main(1)},
                      CycleAllocs, CycleAllocs)

NextCycle ==
    \/ \E s \in Scopes : RuntimeStart(s)
    \/ \E s \in Scopes, inst \in {Null} \cup Objects : AllocCall(Main(s), inst)
    \/ \E t \in Getters : GetCheck1(t)
    \/ \E t \in Getters : GetLock(t)
    \/ \E t \in Getters : GetCheck2(t)
    \/ \E t \in Getters : GetConstruct(t)
    \/ \E t \in Getters, part \in Parts : GetAssign(t, part)
    \/ \E t \in Getters : GetUnlock(t)
    \/ \E t \in Getters : GetReturn(t)
    \/ \E s \in Scopes : AllocLock(Main(s))
    \/ \E s \in Scopes : AllocPushRead(Main(s))
    \/ \E s \in Scopes : AllocPushLink(Main(s))
    \/ \E s \in Scopes : AllocReturn(Main(s))
    \/ \E s \in Scopes, c \in Ctrls : WorkDrop(s, c)
    \/ \E s \in Scopes, a, b \in Ctrls : WorkSetField(s, a, b)
    \/ \E s \in Scopes : WorkReturn(s)
    \/ \E s \in Scopes : StopLock(s)
    \/ \E s \in Scopes : StopSet(s)
    \/ \E s \in Scopes : Notify(s)
    \/ \E s \in Scopes : Join(s)
    \/ \E s \in Scopes : GcLock(s)
    \/ \E s \in Scopes : GcWaitPred(s)
    \/ \E s \in Scopes : GcTimeout(s)
    \/ \E s \in Scopes : GcSpurious(s)
    \/ \E s \in Scopes : GcRelock(s)
    \/ \E s \in Scopes : CollectLock(s)
    \/ \E s \in Scopes : CollectEnd(s)
    \/ \E s \in Scopes : CollectReset(s)
    \/ \E s \in Scopes : CollectErase(s)
    \/ \E s \in Scopes : CollectSpin(s)
    \/ \E s \in Scopes : GcCheckBreak(s)

SpecCycle == InitCycle /\ [][NextCycle]_vars

\* ================================================================= claims

\* Some application variable holds a shared_ptr of control block c.
AppHeld(c) == \E w \in DOMAIN handles : c \in handles[w]

\* Some shared_ptr outside the registry shares control block c: an
\* application variable or a member of a live tracked object.
ExternallyHeld(c) == AppHeld(c) \/ \E x \in Objects : c \in fields[x]

\* Some handle to object o exists outside the registry.
ObjectHeld(o) == \E c \in Ctrls : owned[c] = o /\ ExternallyHeld(c)

\* Some registry entry refers to object o.
Tracked(o) == \E c \in Ctrls : owned[c] = o /\ InRegistry(c)

\* C1: when runtime has returned, every handle that was registered and had
\* lost all its external owners by the time the work function returned has
\* left the registry and the object it refers to has been destructed.
C1_ReclamationCompleteness ==
    \A s \in Scopes :
        pcMain[s] = "returned" =>
            \A c \in unownedAtWorkEnd[s] :
                /\ ~InRegistry(c)
                /\ c \in deleted
                /\ owned[c] # Null => owned[c] \in Destructed

\* runtime has returned and two objects dropped inside work were reclaimed.
C1_Witness ==
    /\ pcMain[1] = "returned"
    /\ unownedAtWorkEnd[1] \subseteq deleted
    /\ Cardinality(DestructedIn(unownedAtWorkEnd[1])) >= 2

\* C2: an object to which a handle exists outside the registry is not
\* destructed, and the registry entry of that handle is in the registry, in
\* every reachable state.
C2_NoPrematureReclamation ==
    \A o \in Objects :
        ObjectHeld(o) =>
            /\ o \notin Destructed
            /\ \A c \in Ctrls :
                   (owned[c] = o /\ ExternallyHeld(c)) => InRegistry(c)

\* C3: once the work function has returned, runtime returns (unless a
\* double delete ends the process first).
C3_ScopeTermination ==
    (pcMain[1] = "stop_lock") ~> (pcMain[1] = "returned" \/ crashed)

\* C4: when the sweep loop has exited, and so when runtime has returned, a
\* sweep that began with the stop flag set has run to its end.
C4_FinalSweepOrdering ==
    \A s \in Scopes :
        (pcGc[s] = "exited" \/ pcMain[s] = "returned") =>
            finalSweep[s] = "complete"

\* runtime has returned after a final sweep that reclaimed an object.
C4_Witness ==
    /\ pcMain[1] = "returned"
    /\ finalSweep[1] = "complete"
    /\ Destructed # {}

\* Every alloc call has returned.
AllocDone == \A t \in AllocThreads : quota[t] = 0 /\ pcAlloc[t] = "idle"

\* C5: with threads registering distinct objects and no sweep running, the
\* registry never holds an object twice, and once NThreads threads have each
\* made AllocsPerThread alloc calls it holds exactly
\* NThreads * AllocsPerThread entries, one per call.
C5_ConcurrentRegistration ==
    /\ \A i, j \in DOMAIN _pointers :
           owned[_pointers[i]] = owned[_pointers[j]] => i = j
    /\ AllocDone =>
          /\ Len(_pointers) = NThreads * AllocsPerThread
          /\ \A o \in 1..(NThreads * AllocsPerThread) : Tracked(o)

\* All calls have returned and the registry order shows that the calls of
\* different threads interleaved.
C5_Witness ==
    /\ AllocDone
    /\ Len(_pointers) >= 2
    /\ \E i \in 1..(Len(_pointers) - 1) :
           owned[_pointers[i]] > owned[_pointers[i + 1]]
    /\ \A t \in AllocThreads : Cardinality(handles[t]) = AllocsPerThread

\* C6: at most one GarbageCollector is constructed, and every getInstance
\* call that has returned returned a pointer to that one instance.
C6_Singleton ==
    /\ constructed <= 1
    /\ \A t \in Getters : calls[t] > 0 => ret[t].ptr = 1

\* Two threads raced on the first access: one returned through the
\* unsynchronized test while the other was still storing _instance.
C6_Witness ==
    \E t, u \in Getters :
        /\ t # u
        /\ calls[t] > 0
        /\ pcGet[u] = "assign"
        /\ written # {}

\* Objects x and y hold a shared_ptr to each other, no application variable
\* holds a handle to either, both are tracked and alive.
OrphanCycle(x, y) ==
    /\ x # y
    /\ \E c \in fields[x] : owned[c] = y
    /\ \E c \in fields[y] : owned[c] = x
    /\ \A c \in Ctrls : owned[c] \in {x, y} => ~AppHeld(c)
    /\ x \notin Destructed /\ y \notin Destructed
    /\ Tracked(x) /\ Tracked(y)

\* C7: two tracked objects that hold each other, with every other external
\* reference released, stay in the registry and are not destructed by any
\* step of any thread.
C7_CyclesNeverReclaimed ==
    [][\A x, y \in Objects :
          OrphanCycle(x, y) =>
              /\ x \notin Destructed' /\ y \notin Destructed'
              /\ Tracked(x)' /\ Tracked(y)']_vars

\* A sweep that began after a timeout, without stop signal, is running
\* while the work function runs and the handle c, which refers to an
\* object, has no owner but the registry.
TimeoutSweepOver(c) ==
    /\ pcMain[1] = "work"
    /\ pcGc[1] = "collect_loop"
    /\ ~gcStopSignal[1]
    /\ InRegistry(c)
    /\ Unique(c)
    /\ owned[c] # Null

\* C8: an object whose external handles were all released inside work is
\* reclaimed by the sweep that the expiry of the interval starts (unless
\* the work function throws and the process ends first).
C8_PeriodicSweep ==
    \A c \in 1..MaxObjects :
        TimeoutSweepOver(c) ~> (c \in deleted \/ Terminated)

\* C9: a sweep that completes after another completed sweep, with no alloc
\* and no change of ownership in between, leaves the registry as the
\* earlier one left it.
C9_SweepIdempotence ==
    [][\A s \in Scopes :
          (pcGc[s] = "collect_loop" /\ pcGc'[s] = "check_break"
           /\ swept /\ ~dirty) => _pointers' = lastSwept]_vars

\* Two sweeps have completed in succession with nothing changed between
\* them, the first of which had reclaimed an object.
C9_Witness ==
    /\ repeated
    /\ pcGc[1] = "check_break"
    /\ Destructed # {}

\* C10: however the work function completes, runtime has set the stop flag
\* and the sweep loop has exited when runtime is left.
C10_StopOnAnyCompletion ==
    \A s \in Scopes :
        pcMain[s] \in {"returned", "terminated"} =>
            gcStopSignal[s] /\ pcGc[s] = "exited"

\* No call of runtime is between its start and its return.
NoScopeActive == \A s \in Scopes : pcMain[s] \in {"idle", "returned"}

\* C11: the sweep thread of a runtime call exists only between the start
\* and the return of that call; while no call is active no entry leaves the
\* registry and no object is destructed, whatever alloc registers and
\* whichever handles are released meanwhile.
C11_SweepsOnlyInsideScope ==
    /\ [](\A s \in Scopes :
            pcGc[s] \notin {"not_started", "exited"} =>
                pcMain[s] \notin {"idle", "returned"})
    /\ [][NoScopeActive =>
            /\ \A c \in Ctrls : InRegistry(c) => InRegistry(c)'
            /\ deleted' = deleted]_vars

\* Between two runtime calls, the first of which reclaimed an object, the
\* registry holds an entry that has no owner left.
C11_Witness ==
    /\ pcMain[1] = "returned"
    /\ pcMain[2] = "idle"
    /\ Destructed # {}
    /\ \E c \in Ctrls : InRegistry(c) /\ Unique(c)

\* C12: a sweep pass that has started reaches the end of the registry and
\* releases the registry lock (unless the process ends first).
C12_SweepPassTerminates ==
    (pcGc[1] = "collect_loop") ~>
        ((pcGc[1] = "check_break" /\ _mutex # Gc(1)) \/ Terminated)

\* C13: when a sweep has completed, every entry it found externally owned
\* is still in the registry, not released, and these entries are in the
\* order the sweep met them; what it found solely owned is gone.
C13_SweepResult ==
    \A s \in Scopes :
        pcGc[s] = "check_break" =>
            /\ \A i \in DOMAIN foundOwned :
                   InRegistry(foundOwned[i]) /\ foundOwned[i] \notin deleted
            /\ SelectSeq(_pointers,
                         LAMBDA c : \E i \in DOMAIN foundOwned :
                                        foundOwned[i] = c) = foundOwned

\* C14: no thread holds one of the locks while it acquires or waits for
\* another; the sweep thread does not hold the lock of the stop flag while it
\* calls getInstance and collect, the thread stopping the loop and a thread
\* entering alloc hold no other lock.
C14_LockDiscipline ==
    /\ \A s \in Scopes :
           pcGc[s] \in {"get_instance", "collect", "collect_loop",
                        "collect_erase"} => _cvMutex # Gc(s)
    /\ \A t \in Getters :
           pcGet[t] \in {"lock", "check2", "construct", "assign", "unlock"} =>
               _cvMutex # t /\ _mutex # t
    /\ \A s \in Scopes :
           pcMain[s] = "stop_lock" => _mutex # Main(s)
    /\ \A t \in AllocThreads :
           pcAlloc[t] = "call" => _cvMutex # t /\ _globalMutex # t

\* Number of registry entries that refer to object o.
EntryCount(o) ==
    Cardinality({i \in DOMAIN _pointers :
                    _pointers[i] # Null /\ owned[_pointers[i]] = o})

\* C15: with alloc calls and sweeps interleaved, every object has at most
\* one registry entry.
C15_RegistryUniqueness ==
    \A o \in Objects : EntryCount(o) <= 1

\* After the stop flag is set and notify_one has been called the sweep
\* thread is never left waiting on _cv: the wake-up is not lost.
StopObserved ==
    \A s \in Scopes :
        (pcMain[s] \in {"join", "returned"} /\ gcStopSignal[s]) =>
            pcGc[s] \notin {"wait_pred", "blocked"} \/ _cvMutex = Gc(s)

\* C16: once runtime has set the stop flag and notified, the sweep thread
\* observes the flag, completes its final sweep and exits, even if gcInterval
\* never expires (unless a double delete ends the process first).
C16_NoLostWakeup ==
    (pcMain[1] = "join") ~>
        ((pcGc[1] = "exited" /\ finalSweep[1] = "complete") \/ crashed)

\* C17: every iteration of the sweep loop waits, then runs one sweep, then
\* decides; wait_for returns the value of the stop flag; the loop exits after
\* the sweep exactly when that value is true, and never while the stop flag
\* is false.
C17_LoopIterationShape ==
    /\ [](\A s \in Scopes : pcGc[s] = "exited" => gcStopSignal[s])
    /\ [][\A s \in Scopes :
            /\ (pcGc[s] # "get_instance" /\ pcGc'[s] = "get_instance") =>
                   /\ pcGc[s] \in {"wait_pred", "relock_timeout"}
                   /\ isNotTimeout'[s] = gcStopSignal[s]
            /\ (pcGc[s] # "collect" /\ pcGc'[s] = "collect") =>
                   pcGc[s] = "get_instance"
            /\ (pcGc[s] \notin {"collect_loop", "collect_erase"}
                    /\ pcGc'[s] = "collect_loop") => pcGc[s] = "collect"
            /\ (pcGc[s] # "check_break" /\ pcGc'[s] = "check_break") =>
                   pcGc[s] = "collect_loop"
            /\ (pcGc[s] = "check_break" /\ pcGc'[s] # "check_break") =>
                   /\ pcGc'[s] \in {"exited", "loop"}
                   /\ pcGc'[s] = "exited" <=> isNotTimeout[s]
                   /\ isNotTimeout[s] = gcStopSignal[s]
            /\ (pcGc[s] # "exited" /\ pcGc'[s] = "exited") =>
                   pcGc[s] = "check_break"]_vars

\* The loop has exited after its final sweep, and an earlier iteration ended
\* with a sweep after which the loop went on.
C17_Witness ==
    /\ pcGc[1] = "exited"
    /\ gcStopSignal[1]
    /\ isNotTimeout[1]
    /\ repeated

\* The object of handle a holds the only handle to the object of handle b,
\* and nothing outside the registry holds a: an acyclic chain without owner.
ChainUnowned(a, b) ==
    /\ a \in Ctrls /\ b \in Ctrls
    /\ owned[a] # Null /\ owned[b] # Null /\ owned[a] # owned[b]
    /\ InRegistry(a) /\ InRegistry(b)
    /\ EntryCount(owned[a]) = 1 /\ EntryCount(owned[b]) = 1
    /\ fields[owned[a]] = {b} /\ fields[owned[b]] = {}
    /\ ~AppHeld(a) /\ ~AppHeld(b)
    /\ \A x \in Objects : a \notin fields[x] /\ (b \in fields[x] => x = owned[a])

\* C18: if, when the work function has completed, A holds the only handle to
\* B and A has no owner outside the registry, then runtime returns and both
\* are destructed, whichever of them was registered first.
C18_TransitiveReclamation ==
    \A a, b \in 1..MaxObjects :
        (pcMain[1] = "stop_lock" /\ ChainUnowned(a, b)
             /\ a \in unownedAtWorkEnd[1]) ~>
            (pcMain[1] = "returned" /\ owned[a] \in Destructed
                 /\ owned[b] \in Destructed)

\* C19: with two runtime scopes overlapping, a sweep loop has exited only if
\* the stop flag of its own scope is set, and once a scope has set its flag
\* and notified, its loop exits, also when notify_one woke the other loop.
C19_ConcurrentScopes ==
    /\ [](\A s \in Scopes : pcGc[s] = "exited" => gcStopSignal[s])
    /\ \A s \in 1..2 : (pcMain[s] = "join") ~> (pcGc[s] = "exited")

\* C20: every alloc call made by the work function acquires the registry
\* lock and returns its handle, also when it is made while a sweep is
\* running (unless the process ends first).
C20_AllocProgress ==
    (pcAlloc[Main(1)] = "call") ~> (pcAlloc[Main(1)] = "idle" \/ Terminated)

====
